---------------------------- MODULE Spec2Model ----------------------------
(***************************************************************************)
(* Model of intg-template/device.py: the Device class of the integration   *)
(* driver template.                                                        *)
(*                                                                         *)
(* Objects live in a heap addressed by references, so that "the same       *)
(* object" (get_device_attributes) and "the configuration object"          *)
(* (identifier / name / address) are statements about references and not   *)
(* about equal values.  The Device instance's own fields are the variables *)
(* _device_config, _power_state and attributes.                            *)
(*                                                                         *)
(* Every coroutine of the class runs from its first statement to its       *)
(* return without yielding to the event loop: the only await expressions   *)
(* (device.py:179, 181) await coroutines of this class directly, which     *)
(* never suspend.  A call is therefore one atomic step, and the            *)
(* interleavings of calls scheduled on one event loop are exactly the      *)
(* sequences of steps of Next.                                             *)
(***************************************************************************)
EXTENDS Naturals, Sequences, FiniteSets

VARIABLES
    heap,            \* reference -> object (DeviceConfig, MediaPlayerAttributes)
    _device_config,  \* self._device_config : reference to the DeviceConfig
    _power_state,    \* self._power_state   : States | None
    attributes,      \* self.attributes     : reference to MediaPlayerAttributes
    events,          \* DeviceEvents emitted on the framework's event channel
    log,             \* records handed to _LOG by the most recent call
    history,         \* the calls made so far, oldest first
    device_config    \* the value of the constructor's device_config argument

vars == <<heap, _device_config, _power_state, attributes, events, log,
          history, device_config>>

-----------------------------------------------------------------------------
(* Bounds *)

\* Number of calls made on one Device instance.
MaxCalls == 3

-----------------------------------------------------------------------------
(* Values *)

\* Python's None.  Strings drawn below never equal this sentinel.
None == "<None>"

\* media_player.States members the module assigns or compares against.
ON == "ON"
OFF == "OFF"

\* References of the two objects the Device holds.
ConfigRef == "obj:DeviceConfig"
AttrRef == "obj:MediaPlayerAttributes"

\* Python truthiness of a str | None value (`if self.name`).
Truthy(v) == v # None /\ v # ""

\* Configuration objects the framework may pass to the constructor.
Identifiers == {"", "dev1"}
Names == {None, "", "Living Room"}
Addresses == {None, "10.0.0.2"}
DeviceConfigs ==
    [identifier : Identifiers, name : Names, address : Addresses]

\* Arguments the framework may pass.
EntityIds == {"media_player.dev1", "remote.dev1"}
Commands == {"volume_up", "power_on", "power_off", "power_toggle"}
Kwargs == {{}, {<<"repeat", "2">>}}

-----------------------------------------------------------------------------
(* Properties (device.py:78-101) *)

identifier_returns_name == heap[_device_config].name

identifier == heap[_device_config].identifier

name == heap[_device_config].name

address == heap[_device_config].address

state == _power_state

log_id_name_only == name

log_id == IF Truthy(name) THEN name ELSE identifier

-----------------------------------------------------------------------------
(* Constructor (device.py:37-72) *)

Device__init__power_on(cfg) ==
    /\ device_config = cfg
    /\ _device_config = ConfigRef
    /\ _power_state = ON
    /\ attributes = AttrRef
    /\ heap = [r \in {ConfigRef, AttrRef} |->
                 IF r = ConfigRef THEN cfg ELSE [STATE |-> None]]

Device__init__(cfg) ==
    /\ device_config = cfg
    /\ _device_config = ConfigRef
    /\ _power_state = None
    /\ attributes = AttrRef
    /\ heap = [r \in {ConfigRef, AttrRef} |->
                 IF r = ConfigRef THEN cfg ELSE [STATE |-> None]]

Init ==
    /\ \E cfg \in DeviceConfigs : Device__init__(cfg)
    /\ events = <<>>
    /\ log = <<>>
    /\ history = <<>>

-----------------------------------------------------------------------------
(* Coroutine bodies.  lg is the log of the running call so far. *)

LogRecord(msg, arg) == [id |-> log_id, msg |-> msg, arg |-> arg]

SetAttrState(s) == [heap EXCEPT ![attributes] = [@ EXCEPT !.STATE = s]]

verify_connection_emits(lg) ==
    /\ log' = lg \o <<LogRecord("Verifying connection to device at", address),
                      LogRecord("Connection verified, state:", _power_state)>>
    /\ events' = Append(events, "UPDATE")
    /\ UNCHANGED <<heap, _device_config, _power_state, attributes>>

verify_connection(lg) ==
    /\ log' = lg \o <<LogRecord("Verifying connection to device at", address),
                      LogRecord("Connection verified, state:", _power_state)>>
    /\ UNCHANGED <<heap, _device_config, _power_state, attributes, events>>

power_on_forgets_attributes(lg) ==
    /\ log' = Append(lg, LogRecord("Powering on", None))
    /\ _power_state' = ON
    /\ UNCHANGED <<heap, _device_config, attributes, events>>

power_on(lg) ==
    /\ log' = Append(lg, LogRecord("Powering on", None))
    /\ _power_state' = ON
    /\ heap' = SetAttrState(ON)
    /\ UNCHANGED <<_device_config, attributes, events>>

power_off_clears(lg) ==
    /\ log' = Append(lg, LogRecord("Powering off", None))
    /\ _power_state' = None
    /\ heap' = SetAttrState(None)
    /\ UNCHANGED <<_device_config, attributes, events>>

power_off_attribute_only(lg) ==
    /\ log' = Append(lg, LogRecord("Powering off", None))
    /\ heap' = SetAttrState(OFF)
    /\ UNCHANGED <<_power_state, _device_config, attributes, events>>

power_off(lg) ==
    /\ log' = Append(lg, LogRecord("Powering off", None))
    /\ _power_state' = OFF
    /\ heap' = SetAttrState(OFF)
    /\ UNCHANGED <<_device_config, attributes, events>>

power_toggle_tests_off(lg) ==
    IF _power_state = OFF
    THEN power_on(Append(lg, LogRecord("Toggling power", None)))
    ELSE power_off(Append(lg, LogRecord("Toggling power", None)))

power_toggle(lg) ==
    IF _power_state = ON
    THEN power_off(Append(lg, LogRecord("Toggling power", None)))
    ELSE power_on(Append(lg, LogRecord("Toggling power", None)))

send_command_routes_power(command, kwargs, lg) ==
    IF command = "power_on"
    THEN power_on(lg \o <<LogRecord("Sending command:", command),
                          LogRecord("Sending command:", command)>>)
    ELSE /\ log' = lg \o <<LogRecord("Sending command:", command),
                           LogRecord("Sending command:", command)>>
         /\ UNCHANGED <<heap, _device_config, _power_state, attributes, events>>

send_command(command, kwargs, lg) ==
    /\ log' = lg \o <<LogRecord("Sending command:", command),
                      LogRecord("Sending command:", command)>>
    /\ UNCHANGED <<heap, _device_config, _power_state, attributes, events>>

get_device_attributes_by_entity(entity_id) ==
    IF entity_id = "remote.dev1" THEN _device_config ELSE attributes

get_device_attributes(entity_id) == attributes

-----------------------------------------------------------------------------
(* Calls made by the framework *)

Call(op, entity_id, command, kwargs, ret) ==
    [op |-> op, entity_id |-> entity_id, command |-> command,
     kwargs |-> kwargs, pre |-> _power_state, ret |-> ret]

CanCall == Len(history) < MaxCalls

Call_verify_connection ==
    /\ CanCall
    /\ verify_connection(<<>>)
    /\ history' = Append(history, Call("verify_connection", None, None, {}, None))
    /\ UNCHANGED device_config

Call_power_on ==
    /\ CanCall
    /\ power_on(<<>>)
    /\ history' = Append(history, Call("power_on", None, None, {}, None))
    /\ UNCHANGED device_config

Call_power_off ==
    /\ CanCall
    /\ power_off(<<>>)
    /\ history' = Append(history, Call("power_off", None, None, {}, None))
    /\ UNCHANGED device_config

Call_power_toggle ==
    /\ CanCall
    /\ power_toggle(<<>>)
    /\ history' = Append(history, Call("power_toggle", None, None, {}, None))
    /\ UNCHANGED device_config

Call_send_command ==
    /\ CanCall
    /\ \E command \in Commands, kwargs \in Kwargs :
          /\ send_command(command, kwargs, <<>>)
          /\ history' = Append(history,
                               Call("send_command", None, command, kwargs, None))
    /\ UNCHANGED device_config

Call_get_device_attributes ==
    /\ CanCall
    /\ \E entity_id \in EntityIds :
          history' = Append(history,
                            Call("get_device_attributes", entity_id, None, {},
                                 get_device_attributes(entity_id)))
    /\ log' = <<>>
    /\ UNCHANGED <<heap, _device_config, _power_state, attributes, events,
                   device_config>>

Next ==
    \/ Call_verify_connection
    \/ Call_power_on
    \/ Call_power_off
    \/ Call_power_toggle
    \/ Call_send_command
    \/ Call_get_device_attributes

Spec == Init /\ [][Next]_vars

-----------------------------------------------------------------------------
(* Vocabulary of the properties *)

PowerOps == {"power_on", "power_off", "power_toggle"}

\* The step is a call of op: the call just appended to history.
Called(op) ==
    /\ Len(history') = Len(history) + 1
    /\ history'[Len(history')].op = op

\* attributes.STATE, read through the reference the Device holds.
AttrSTATE == heap[attributes].STATE

\* The power state when call i returned: the state the next call started
\* from, or the current state when call i is the latest.
PostOf(i) == IF i < Len(history) THEN history[i + 1].pre ELSE _power_state

-----------------------------------------------------------------------------
\* C1: a power_toggle() call ends with state == OFF when state was ON at the
\* call, and with state == ON otherwise (state OFF or unset).
C1_ToggleResult ==
    [][Called("power_toggle") =>
          IF state = ON THEN state' = OFF ELSE state' = ON]_vars

C1_Witness ==
    /\ Len(history) = 3
    /\ history[1].op = "power_off" /\ history[1].pre = None
    /\ history[2].op = "power_toggle" /\ history[2].pre = OFF
    /\ history[3].op = "power_toggle" /\ history[3].pre = ON
    /\ state = OFF

\* C2: after power_on() both _power_state and attributes.STATE are ON, and
\* after power_off() both are OFF, whatever the state before the call.
C2_PowerOnOffResult ==
    [][/\ Called("power_on") => (_power_state' = ON /\ AttrSTATE' = ON)
       /\ Called("power_off") => (_power_state' = OFF /\ AttrSTATE' = OFF)]_vars

C2_Witness ==
    /\ Len(history) = 3
    /\ history[1].op = "power_on" /\ history[1].pre = None
    /\ history[2].op = "power_off" /\ history[2].pre = ON
    /\ history[3].op = "power_on" /\ history[3].pre = OFF
    /\ _power_state = ON /\ AttrSTATE = ON

\* C3: get_device_attributes(entity_id) returns the Device's one attributes
\* object for every entity_id: the same object as every earlier call
\* returned, holding the current attributes.STATE, and the call changes no
\* field of the Device and no object.
C3_SameAttributesObject ==
    [][Called("get_device_attributes") =>
          /\ history'[Len(history')].ret = attributes'
          /\ \A i \in DOMAIN history' :
                history'[i].op = "get_device_attributes" =>
                   history'[i].ret = history'[Len(history')].ret
          /\ heap'[history'[Len(history')].ret].STATE = AttrSTATE
          /\ UNCHANGED <<heap, _device_config, _power_state, attributes,
                         events, device_config>>]_vars

C3_Witness ==
    /\ Len(history) = 3
    /\ history[1].op = "power_on"
    /\ history[2].op = "get_device_attributes"
    /\ history[3].op = "get_device_attributes"
    /\ history[2].entity_id # history[3].entity_id
    /\ history[2].ret = history[3].ret
    /\ heap[history[3].ret].STATE = ON

\* C4: identifier, name and address are the fields of the configuration
\* object passed to the constructor, after any sequence of calls.
C4_ConfigAccessors ==
    /\ identifier = device_config.identifier
    /\ name = device_config.name
    /\ address = device_config.address

C4_Witness ==
    /\ Len(history) = 3
    /\ history[1].op = "power_toggle"
    /\ history[2].op = "send_command"
    /\ history[3].op = "verify_connection"
    /\ identifier = "dev1" /\ name = "Living Room" /\ address = "10.0.0.2"
    /\ device_config = [identifier |-> "dev1", name |-> "Living Room",
                        address |-> "10.0.0.2"]

\* C5: right after construction, before any call, _power_state is None,
\* attributes.STATE is None and the state property returns None.
C5_InitialStateUnset ==
    history = <<>> =>
       /\ _power_state = None
       /\ AttrSTATE = None
       /\ state = None

C5_Witness ==
    /\ history = <<>>
    /\ log = <<>>
    /\ state = None
    /\ AttrSTATE = None
    /\ heap[_device_config] = device_config

\* C6: verify_connection() leaves _power_state and attributes.STATE as they
\* were and emits no DeviceEvents.UPDATE event.
C6_VerifyConnectionNoEffect ==
    [][Called("verify_connection") =>
          /\ _power_state' = _power_state
          /\ AttrSTATE' = AttrSTATE
          /\ events' = events
          /\ \A i \in DOMAIN events' : events'[i] # "UPDATE"]_vars

C6_Witness ==
    /\ Len(history) = 2
    /\ history[1].op = "power_on"
    /\ history[2].op = "verify_connection" /\ history[2].pre = ON
    /\ _power_state = ON /\ AttrSTATE = ON
    /\ events = <<>>
    /\ Len(log) = 2

\* C7: send_command(command, **kwargs) leaves _power_state and
\* attributes.STATE as they were for every command and keyword arguments,
\* commands named like power operations included.
C7_SendCommandNoEffect ==
    [][Called("send_command") =>
          /\ _power_state' = _power_state
          /\ AttrSTATE' = AttrSTATE]_vars

C7_Witness ==
    /\ Len(history) = 2
    /\ history[1].op = "power_off"
    /\ history[2].op = "send_command"
    /\ history[2].command = "power_on"
    /\ history[2].kwargs # {}
    /\ history[2].pre = OFF
    /\ _power_state = OFF /\ AttrSTATE = OFF

\* C8: log_id is the configured name when the name is non-empty and the
\* configured identifier when the name is empty or missing; it is not empty
\* when the identifier is non-empty.
C8_LogId ==
    /\ (device_config.name \notin {None, ""}) => log_id = device_config.name
    /\ (device_config.name \in {None, ""}) => log_id = device_config.identifier
    /\ (device_config.identifier # "") => log_id \notin {None, ""}

C8_Witness ==
    /\ device_config.name = ""
    /\ device_config.identifier = "dev1"
    /\ Len(history) = 1
    /\ history[1].op = "power_on"
    /\ log = <<[id |-> "dev1", msg |-> "Powering on", arg |-> None]>>

\* C9: in every state reachable by any sequence (interleaving) of calls,
\* _power_state equals attributes.STATE.
C9_StateFieldsAgree == _power_state = AttrSTATE

C9_Witness ==
    /\ Len(history) = 3
    /\ history[1].op = "power_on"
    /\ history[2].op = "verify_connection"
    /\ history[3].op = "power_toggle"
    /\ _power_state = OFF /\ AttrSTATE = OFF

\* C10: the power state is always None, ON or OFF; once power_on, power_off
\* or power_toggle has completed it is never None again; two consecutive
\* power_toggle calls restore the state they started from when that was ON
\* or OFF, and end in OFF when it was None.
C10_UnsetOnlyInitially ==
    /\ state \in {None, ON, OFF}
    /\ (\E i \in DOMAIN history : history[i].op \in PowerOps) => state # None
    /\ \A i \in DOMAIN history :
          (/\ i < Len(history)
           /\ history[i].op = "power_toggle"
           /\ history[i + 1].op = "power_toggle") =>
             /\ history[i].pre \in {ON, OFF} => PostOf(i + 1) = history[i].pre
             /\ history[i].pre = None =>
                   (PostOf(i) = ON /\ PostOf(i + 1) = OFF)

C10_Witness ==
    /\ Len(history) = 3
    /\ \A i \in 1..3 : history[i].op = "power_toggle"
    /\ history[1].pre = None
    /\ history[2].pre = ON
    /\ history[3].pre = OFF
    /\ state = ON

=============================================================================
